---- MODULE Spec2Model ----
(***************************************************************************)
(* The voice agent of main.py and transcriber.py.                          *)
(*                                                                         *)
(* The program as it runs is the /ws handler (websocket_endpoint), the     *)
(* in-memory session store (chat_histories) and the reaper thread          *)
(* (cleanup_old_sessions).  The handler constructs the speech-to-text      *)
(* adapter without an api_key (main.py:419-423) and the constructor        *)
(* raises ValueError without one (transcriber.py:31-32): every config      *)
(* message with a session id creates or updates the session, sets          *)
(* is_listening and ends the handler.  No adapter ever exists in the       *)
(* running program, so its callback process_transcript, which is handed    *)
(* to nothing but that constructor, is never called, and neither is the    *)
(* relay that only the callback calls.  SpecAsWritten is that program.     *)
(*                                                                         *)
(* Three units of the repository are specified on their own, as a caller   *)
(* of the unit meets them, their inputs drawn in the initial state:        *)
(*   manage_conversation_history        (SpecHistory),                     *)
(*   stream_llm_to_murf_and_client      (SpecRelay),                       *)
(*   the class AssemblyAIStreamingTranscriber (SpecAdapter).               *)
(* What these say is said of the function and of the class, not of a       *)
(* connection of the running program.                                      *)
(*                                                                         *)
(* Coroutines run on one asyncio event loop: a step of the model is the    *)
(* code between two suspension points.  The speech-to-text SDK delivers    *)
(* its events on its own thread and hands coroutines to the loop with      *)
(* run_coroutine_threadsafe.  The reaper is a thread without a lock.       *)
(* Python lists are objects held by reference: they live in a heap         *)
(* (`lists`).                                                               *)
(***************************************************************************)
EXTENDS Integers, Sequences, FiniteSets, TLC

\* ---------------------------------------------------------------- constants
MAX_HISTORY_LENGTH == 50
SESSION_CLEANUP_HOURS == 24

\* ------------------------------------------------------------------- bounds
\* SpecAsWritten: one connection of the program as it is written, the
\* reaper thread and the clock
WrittenMsgs == 3       \* messages the handler receives
MaxPasses == 2         \* passes of cleanup_old_sessions
\* SpecHistory: the longest history handed to manage_conversation_history
\* is MAX_HISTORY_LENGTH + MaxExcess turns long, and the function is applied
\* MaxApplications times in a row
MaxExcess == 3
MaxApplications == 2
\* SpecRelay: one call of the relay
MaxChunks == 2     \* fragments with text in the input text sequence
MaxAudio == 2      \* audio messages forwarded are counted up to this number
\* SpecAdapter: one adapter
MaxEvents == 3     \* events delivered by the speech-to-text backend
MaxFed == 1        \* audio chunks streamed to the adapter

\* ------------------------------------------------------------------- values
None == "<None>"

\* persona.py: the prompt texts, by name
PERSONAS == [default |-> "prompt:default", dungeon_master |-> "prompt:dungeon_master"]

\* dict.get(key, PERSONAS["default"])
PersonaGet(key) ==
    IF key \in DOMAIN PERSONAS THEN PERSONAS[key] ELSE PERSONAS["default"]

\* the api_key the adapter's constructor is called with: the call of
\* main.py:419-423 gives none, so the parameter keeps its default None
\* (CallKeys); a caller of the class that wants an adapter gives one
\* (GivenKeys)
CallKeys == {None}
GivenKeys == {"key"}

SessionIds == {"abc1234567", "ab"}
ShortSessionIds == {"ab"}    \* non-empty, shorter than a session id has to be
NoSessionIds == {""}    \* message.get("session_id") that is falsy
PersonaInputs == {None, "dungeon_master", "bogus"}
Transcripts == {<<>>, <<"hello">>}

\* A Turn of the history: {"role": ..., "parts": [...]}
UserTurn(text) == [role |-> "user", kind |-> "text", data |-> text]
ModelTurn(text) == [role |-> "model", kind |-> "text", data |-> text]

VARIABLES
    murf_key,        \* os.getenv("MURF_API_KEY")
    hstate,          \* the handler of the client connection: "running", or how it exited
    session_id,      \* websocket_endpoint local
    transcriber,     \* websocket_endpoint local: adapter id or None (0)
    is_listening,    \* websocket_endpoint local
    adapters,        \* every adapter constructed
    scheduled,       \* coroutines handed to the loop by the SDK thread
    relay,           \* the call of stream_llm_to_murf_and_client
    chat_histories,  \* the session store
    lists,           \* heap of history lists
    nevents,         \* events delivered by the speech-to-text backend so far
    called,          \* the transcripts on_transcript_callback was started with
    interims,        \* `transcript` messages sent to the client
    sending,         \* sends of `transcript` messages that have not returned yet
    now,             \* datetime.now(), in hours
    msgs,            \* the types of the messages the handler has received
    reaper           \* the cleanup_old_sessions thread

vars == <<murf_key, hstate, session_id, transcriber, is_listening,
          adapters, scheduled, relay, chat_histories, lists, nevents,
          called, interims, sending, now, msgs, reaper>>

\* ------------------------------------------------------------ pure functions

\* main.py manage_conversation_history: history[-MAX_HISTORY_LENGTH:]
\* a window that keeps the oldest turns instead of the newest
manage_conversation_history_oldest(history) ==
    IF Len(history) > MAX_HISTORY_LENGTH
    THEN SubSeq(history, 1, MAX_HISTORY_LENGTH)
    ELSE history

manage_conversation_history(history) ==
    IF Len(history) > MAX_HISTORY_LENGTH
    THEN SubSeq(history, Len(history) - MAX_HISTORY_LENGTH + 1, Len(history))
    ELSE history

\* AssemblyAIStreamingTranscriber.__init__: ValueError unless api_key is
\* given; otherwise the client is built and connected, which may fail
TranscriberInit(key, connect_ok) ==
    IF key = None THEN "ValueError"
    ELSE IF connect_ok THEN "ok" ELSE "raise"

\* the adapter a constructor call that returned has made: connected, not
\* closed, fed no audio, no error reported to it
NewAdapter == [state |-> "open", closes |-> 0, fed |-> 0, errors |-> 0]

\* AssemblyAIStreamingTranscriber.close on adapter a:
\* client.disconnect(terminate=True) returns (ok), or raises and leaves the
\* adapter as it was; `closes` counts the calls
Close(ad, a, ok) ==
    [ad EXCEPT ![a].state = IF ok THEN "closed" ELSE @, ![a].closes = @ + 1]

\* the `finally` of websocket_endpoint: if transcriber: transcriber.close()
\* (an exception of close leaves the handler as well)
Finally(ad, close_ok) ==
    IF transcriber # 0 THEN Close(ad, transcriber, close_ok) ELSE ad

\* the client connection accepts sends while its handler is running
WsOpen == hstate = "running"

\* ------------------------------------------------------- input text sequences
TextItem(c) == [t |-> "text", v |-> c]
RaiseItem == [t |-> "raise", v |-> <<>>]

\* the fragments of a sequence are told apart by their place
Letters == <<"a", "b", "c", "d">>
Texts(n) == [i \in 1..n |-> TextItem(<<Letters[i]>>)]

\* what the relay may be handed as text_stream: n fragments of text, a
\* fragment without text alone or between two with text, or fragments and
\* then an exception of the generator
TextStreams ==
    {Texts(n) : n \in 0..MaxChunks}
    \cup {<<TextItem(<<>>)>>}
    \cup {<<TextItem(<<"a">>), TextItem(<<>>), TextItem(<<"b">>)>>}
    \cup {Append(Texts(n), RaiseItem) : n \in 0..(MaxChunks - 1)}

\* the fragments with text of a sequence, in their order
RECURSIVE Fragments(_)
Fragments(s) ==
    IF s = <<>> THEN <<>>
    ELSE IF Head(s).t = "text" /\ Head(s).v # <<>>
         THEN <<Head(s).v>> \o Fragments(Tail(s))
         ELSE Fragments(Tail(s))

\* the concatenation of a sequence of fragments
RECURSIVE Concat(_)
Concat(f) == IF f = <<>> THEN <<>> ELSE Head(f) \o Concat(Tail(f))

\* ------------------------------------------------------------------- Init

EmptyStore == [k \in {} |-> 0]

\* cleanup_old_sessions between two passes: in time.sleep since `slept`
Sleeping ==
    [pc |-> "sleep", now |-> 0, todo |-> {}, session_id |-> None,
     cleaned_count |-> 0, passes |-> 0, slept |-> 0]

\* the readings of the clock the model tells apart, in hours: the start, the
\* idle threshold later, and one and two hours past that
Times == {0, SESSION_CLEANUP_HOURS, SESSION_CLEANUP_HOURS + 1, SESSION_CLEANUP_HOURS + 2}

\* no call of the relay
NoRelay ==
    [pc |-> "none", input |-> <<>>, stream |-> <<>>, full_text |-> <<>>,
     chunk |-> <<>>, murf |-> "none", tts |-> <<>>, rcv |-> "none",
     \* what the client got
     chunks |-> <<>>, llm_ends |-> 0, audio |-> 0,
     result |-> None]

\* ------------------------------------------------- the handler's message loop

Receiving == hstate = "running"

\* lines 269-270: receive_text returned a message whose "type" is type
Received(type) == msgs' = Append(msgs, type)

\* a config branch that stores the session before it looks at the session id
ConfigNoSessionStored(sid) ==
    /\ Receiving
    /\ sid \in NoSessionIds
    /\ Received("config")
    /\ session_id' = sid
    /\ hstate' = "closing_1008"
    /\ lists' = Append(lists, <<>>)
    /\ chat_histories' = (sid :> [history |-> Len(lists) + 1,
                                  persona_prompt |-> PERSONAS["default"],
                                  last_accessed |-> now]) @@ chat_histories
    /\ UNCHANGED <<murf_key, reaper, transcriber, is_listening, adapters, scheduled,
                   relay, nevents, called, interims, sending, now>>

\* lines 397-402: message["type"] == "config" without a usable session_id:
\* session_id is assigned and websocket.close(code=1008) is awaited; the
\* connection takes no more sends, the adapter is still open
ConfigNoSession(sid) ==
    /\ Receiving
    /\ sid \in NoSessionIds
    /\ Received("config")
    /\ session_id' = sid
    /\ hstate' = "closing_1008"
    /\ UNCHANGED <<murf_key, reaper, transcriber, is_listening, adapters, scheduled,
                   relay, chat_histories, lists, nevents, called, interims, sending, now>>

\* lines 402-403 and 443-446: close() has returned; `return` runs the finally
ConfigNoSessionReturn(close_ok) ==
    /\ hstate = "closing_1008"
    /\ hstate' = "closed_1008"
    /\ adapters' = Finally(adapters, close_ok)
    /\ UNCHANGED <<murf_key, reaper, session_id, transcriber, is_listening,
                   scheduled, relay, chat_histories, lists, nevents,
                   called, interims, sending, now, msgs>>

\* message["type"] == "config" with a session_id.  key is the api_key the
\* adapter's constructor is called with: lines 419-423 pass none (CallKeys),
\* the constructor raises and the handler leaves through lines 441-446
Config(sid, persona, connect_ok, key, close_ok) ==
    /\ Receiving
    /\ sid \in SessionIds
    /\ Received("config")
    /\ session_id' = sid
    /\ LET persona_key == IF persona = None THEN "default" ELSE persona
           persona_prompt == PersonaGet(persona_key)
       IN  IF sid \notin DOMAIN chat_histories
           THEN /\ lists' = Append(lists, <<>>)
                /\ chat_histories' = (sid :> [history |-> Len(lists) + 1,
                                              persona_prompt |-> persona_prompt,
                                              last_accessed |-> now]) @@ chat_histories
           ELSE /\ lists' = lists
                /\ chat_histories' =
                       [chat_histories EXCEPT ![sid].persona_prompt = persona_prompt]
    /\ is_listening' = TRUE
    /\ IF TranscriberInit(key, connect_ok) = "ok"
       THEN /\ adapters' = Append(adapters, NewAdapter)
            /\ transcriber' = Len(adapters) + 1
            /\ hstate' = hstate
       ELSE /\ adapters' = Finally(adapters, close_ok)
            /\ transcriber' = transcriber
            /\ hstate' = "exited"
    /\ UNCHANGED <<murf_key, reaper, scheduled, relay, nevents, called, interims, sending, now>>

\* the audio branch without the test of line 426: stream_audio is called on
\* whatever `transcriber` holds, and on None that raises AttributeError,
\* which ends the handler through lines 441-446
AudioNotGuarded ==
    /\ Receiving
    /\ Received("audio")
    /\ IF transcriber # 0
       THEN adapters' = [adapters EXCEPT ![transcriber].fed = @ + 1] /\ hstate' = hstate
       ELSE adapters' = adapters /\ hstate' = "exited"
    /\ UNCHANGED <<murf_key, reaper, session_id, transcriber, is_listening,
                   scheduled, relay, chat_histories, lists, nevents, called,
                   interims, sending, now>>

\* message["type"] == "audio": the chunk is streamed to the adapter (`fed`
\* counts the chunks) only while listening and while there is an adapter
Audio ==
    /\ Receiving
    /\ Received("audio")
    /\ IF is_listening /\ transcriber # 0
       THEN adapters' = [adapters EXCEPT ![transcriber].fed = @ + 1]
       ELSE adapters' = adapters
    /\ UNCHANGED <<murf_key, reaper, hstate, session_id, transcriber, is_listening,
                   scheduled, relay, chat_histories, lists, nevents, called,
                   interims, sending, now>>

\* message["type"] == "stop_recording" (lines 431-437).  transcriber.close()
\* returns and `transcriber = None` follows, or it raises (close_ok false):
\* `transcriber` keeps the adapter, the handler leaves through line 441 and
\* the finally closes the same adapter again (again_ok: that call returns)
StopRecording(close_ok, again_ok) ==
    /\ Receiving
    /\ Received("stop_recording")
    /\ is_listening' = FALSE
    /\ IF transcriber = 0
       THEN adapters' = adapters /\ transcriber' = transcriber /\ hstate' = hstate
       ELSE IF close_ok
            THEN /\ adapters' = Close(adapters, transcriber, TRUE)
                 /\ transcriber' = 0
                 /\ hstate' = hstate
            ELSE /\ adapters' = Close(Close(adapters, transcriber, FALSE),
                                      transcriber, again_ok)
                 /\ transcriber' = transcriber
                 /\ hstate' = "exited"
    /\ UNCHANGED <<murf_key, reaper, session_id, scheduled, relay,
                   chat_histories, lists, nevents, called, interims, sending, now>>

\* a message of any other type matches no branch: the loop receives again
OtherMessage ==
    /\ Receiving
    /\ Received("other")
    /\ UNCHANGED <<murf_key, reaper, hstate, session_id, transcriber,
                   is_listening, adapters, scheduled, relay, chat_histories, lists,
                   nevents, called, interims, sending, now>>

\* receive_text raises WebSocketDisconnect, or the message is not JSON or
\* has no "type": the matching `except` logs, then finally
HandlerExit(close_ok) ==
    /\ hstate = "running"
    /\ hstate' = "exited"
    /\ adapters' = Finally(adapters, close_ok)
    /\ UNCHANGED <<murf_key, reaper, session_id, transcriber, is_listening,
                   scheduled, relay, chat_histories, lists, nevents,
                   called, interims, sending, now, msgs>>

\* ------------------------------------------------ the speech-to-text adapter

\* stream_audio (transcriber.py:82-83): the chunk goes to the client of the SDK
stream_audio(a) ==
    /\ a \in 1..Len(adapters)
    /\ adapters[a].state = "open"
    /\ adapters[a].fed < MaxFed
    /\ adapters' = [adapters EXCEPT ![a].fed = @ + 1]
    /\ UNCHANGED <<murf_key, reaper, hstate, session_id, transcriber, is_listening,
                   scheduled, relay, chat_histories, lists, nevents, called,
                   interims, sending, now, msgs>>

\* close (transcriber.py:85-86), called by the holder of the adapter
close(a, close_ok) ==
    /\ a \in 1..Len(adapters)
    /\ adapters[a].state = "open"
    /\ adapters[a].closes = 0
    /\ adapters' = Close(adapters, a, close_ok)
    /\ UNCHANGED <<murf_key, reaper, hstate, session_id, transcriber, is_listening,
                   scheduled, relay, chat_histories, lists, nevents, called,
                   interims, sending, now, msgs>>

\* an adapter that hands every end of turn to the callback, formatted or not
on_turn_unformatted(a, transcript, end_of_turn, turn_is_formatted) ==
    /\ a \in 1..Len(adapters)
    /\ adapters[a].state = "open"
    /\ adapters[a].fed > 0
    /\ nevents' = nevents + 1
    /\ IF transcript = <<>>
       THEN scheduled' = scheduled
       ELSE IF end_of_turn
            THEN scheduled' = Append(scheduled, [kind |-> "final", text |-> transcript])
            ELSE scheduled' = Append(scheduled, [kind |-> "interim", text |-> transcript])
    /\ UNCHANGED <<murf_key, reaper, hstate, session_id, transcriber, is_listening,
                   adapters, relay, chat_histories, lists, called, interims, sending, now,
                   msgs>>

\* AssemblyAIStreamingTranscriber.on_turn, on the SDK's thread.  The backend
\* produces Turn events for an adapter that is connected and was fed audio.
on_turn(a, transcript, end_of_turn, turn_is_formatted) ==
    /\ a \in 1..Len(adapters)
    /\ adapters[a].state = "open"
    /\ adapters[a].fed > 0
    /\ nevents' = nevents + 1
    /\ IF transcript = <<>>
       THEN scheduled' = scheduled
       ELSE IF end_of_turn
            THEN IF turn_is_formatted
                 THEN scheduled' = Append(scheduled, [kind |-> "final", text |-> transcript])
                 ELSE scheduled' = scheduled   \* set_params(format_turns=True)
            ELSE scheduled' = Append(scheduled, [kind |-> "interim", text |-> transcript])
    /\ UNCHANGED <<murf_key, reaper, hstate, session_id, transcriber, is_listening,
                   adapters, relay, chat_histories, lists, called, interims, sending, now,
                   msgs>>

\* on_error, called on the SDK's thread when the backend reports an error:
\* print("Error:", error) and nothing else; the adapter counts the reports
on_error(a) ==
    /\ a \in 1..Len(adapters)
    /\ adapters[a].state = "open"
    /\ nevents' = nevents + 1
    /\ adapters' = [adapters EXCEPT ![a].errors = @ + 1]
    /\ UNCHANGED <<murf_key, reaper, hstate, session_id, transcriber, is_listening,
                   scheduled, relay, chat_histories, lists, called, interims, sending, now,
                   msgs>>

\* the loop starts the websocket.send_text({"type": "transcript"}) that
\* on_turn scheduled (lines 70-74): the coroutine is suspended in the send;
\* on a connection whose client is gone the send raises at once, in the loop
SendInterim ==
    /\ scheduled # <<>>
    /\ Head(scheduled).kind = "interim"
    /\ scheduled' = Tail(scheduled)
    /\ sending' = IF WsOpen THEN sending + 1 ELSE sending
    /\ UNCHANGED <<murf_key, reaper, hstate, session_id, transcriber, is_listening,
                   adapters, relay, chat_histories, lists, nevents, called,
                   interims, now, msgs>>

\* a send of a `transcript` message is over (sent: it returned, the client
\* has the message; it raises once the client is gone)
interim_sent(sent) ==
    /\ sending > 0
    /\ WsOpen => sent
    /\ sending' = sending - 1
    /\ interims' = IF sent THEN interims + 1 ELSE interims
    /\ UNCHANGED <<murf_key, reaper, hstate, session_id, transcriber, is_listening,
                   adapters, scheduled, relay, chat_histories, lists, nevents,
                   called, now, msgs>>

\* the loop starts on_transcript_callback(transcript) scheduled by on_turn
\* (lines 63-65); what the callback does is the constructor's caller's
RunCallback ==
    /\ scheduled # <<>>
    /\ Head(scheduled).kind = "final"
    /\ scheduled' = Tail(scheduled)
    /\ called' = Append(called, Head(scheduled).text)
    /\ UNCHANGED <<murf_key, reaper, hstate, session_id, transcriber, is_listening,
                   adapters, relay, chat_histories, lists, nevents, interims, sending, now,
                   msgs>>

\* ------------------------------------------- stream_llm_to_murf_and_client

\* messages to the TTS backend
VoiceConfig == [k |-> "voice_config", v |-> <<>>]
TextMsg(c) == [k |-> "text", v |-> c]
EndMsg == [k |-> "end", v |-> <<>>]

RelayVarsUnchanged ==
    UNCHANGED <<murf_key, reaper, hstate, session_id, transcriber, is_listening,
                adapters, scheduled, chat_histories, lists, nevents, called,
                interims, sending, now, msgs>>

At(pc) == relay.pc = pc

\* line 192 (and 128): the relay returns r.full_text
Return(r) == relay' = [r EXCEPT !.pc = "returned", !.result = r.full_text]

\* an exception inside `async with websockets.connect(uri) as murf_ws`
\* (lines 135-186): the exit of the block closes the TTS connection and
\* waits for the closing handshake before line 189 catches the exception
Raise(r) == relay' = [r EXCEPT !.pc = "murf_close", !.murf = "closing"]

\* lines 118-133: without MURF_API_KEY the relay returns "" before it reads
\* its input; otherwise full_text = "" and the connection is requested
relay_start ==
    /\ At("start")
    /\ IF murf_key = None
       THEN Return([relay EXCEPT !.full_text = <<>>])
       ELSE relay' = [relay EXCEPT !.pc = "murf_connect", !.full_text = <<>>]
    /\ RelayVarsUnchanged

\* line 135: websockets.connect(uri) returns the connection, or raises,
\* which line 189 catches
murf_connect(ok) ==
    /\ At("murf_connect")
    /\ IF ok
       THEN relay' = [relay EXCEPT !.pc = "murf_config", !.murf = "open"]
       ELSE Return(relay)
    /\ RelayVarsUnchanged

\* a relay that starts the receiver without sending the voice configuration
murf_config_skipped(ok) ==
    /\ At("murf_config")
    /\ IF ok
       THEN relay' = [relay EXCEPT !.pc = "text_next", !.rcv = "running"]
       ELSE Raise(relay)
    /\ RelayVarsUnchanged

\* lines 139-167: the send of the voice configuration is over; the receiver
\* task is created and the first item of text_stream awaited
murf_config(ok) ==
    /\ At("murf_config")
    /\ IF ok
       THEN relay' = [relay EXCEPT !.pc = "text_next", !.rcv = "running",
                                   !.tts = <<VoiceConfig>>]
       ELSE Raise(relay)
    /\ RelayVarsUnchanged

\* lines 170-174 and 181: the next item of text_stream.  A chunk with text
\* is added to full_text and handed to the client connection as llm_chunk,
\* where the relay waits for the send (a send to a client that is gone
\* raises at once); a chunk without text is passed over; when the sequence
\* has ended, end-of-input is handed to the TTS connection
text_next ==
    /\ At("text_next")
    /\ IF relay.stream = <<>>
       THEN relay' = [relay EXCEPT !.pc = "murf_end"]
       ELSE LET item == Head(relay.stream)
                r1 == [relay EXCEPT !.stream = Tail(@)]
            IN  IF item.t # "text"
                THEN Raise(r1)
                ELSE IF item.v = <<>>
                THEN relay' = r1
                ELSE LET r2 == [r1 EXCEPT !.chunk = item.v,
                                          !.full_text = @ \o item.v]
                     IN  IF WsOpen
                         THEN relay' = [r2 EXCEPT !.pc = "chunk_send"]
                         ELSE Raise(r2)
    /\ RelayVarsUnchanged

\* lines 174-176: the send of llm_chunk is over (sent: it returned, the
\* client has the chunk; it raises once the client is gone); the chunk is
\* handed to the TTS connection
chunk_sent(sent) ==
    /\ At("chunk_send")
    /\ WsOpen => sent
    /\ IF sent
       THEN relay' = [relay EXCEPT !.pc = "murf_send",
                                   !.chunks = Append(@, relay.chunk)]
       ELSE Raise(relay)
    /\ RelayVarsUnchanged

\* line 176: the send of the chunk to the TTS backend is over
murf_send(ok) ==
    /\ At("murf_send")
    /\ IF ok
       THEN relay' = [relay EXCEPT !.pc = "text_next",
                                   !.tts = Append(@, TextMsg(relay.chunk))]
       ELSE Raise(relay)
    /\ RelayVarsUnchanged

\* lines 181-182: the send of end-of-input to the TTS backend is over;
\* llm_end is handed to the client connection, where the relay waits for
\* the send
murf_end(ok) ==
    /\ At("murf_end")
    /\ IF ~ok
       THEN Raise(relay)
       ELSE LET r1 == [relay EXCEPT !.tts = Append(@, EndMsg)]
            IN  IF WsOpen
                THEN relay' = [r1 EXCEPT !.pc = "llm_end_send"]
                ELSE Raise(r1)
    /\ RelayVarsUnchanged

\* the ways audio_receiver ends (lines 154-165)
Finished == {"final", "timeout", "closed", "error"}

\* lines 182-186: the send of llm_end is over (or raised).  The relay waits
\* for receiver_task; if the receiver has ended already the await returns at
\* once and the `async with` block is left, which closes the TTS connection
llm_end_sent(sent) ==
    /\ At("llm_end_send")
    /\ WsOpen => sent
    /\ IF ~sent
       THEN Raise(relay)
       ELSE IF relay.rcv \in Finished
            THEN relay' = [relay EXCEPT !.pc = "murf_close", !.murf = "closing",
                                        !.llm_ends = @ + 1]
            ELSE relay' = [relay EXCEPT !.pc = "await_receiver",
                                        !.llm_ends = @ + 1]
    /\ RelayVarsUnchanged

\* line 186: receiver_task has ended while the relay waited for it; the
\* `async with` block is left, which closes the TTS connection
receiver_joined ==
    /\ At("await_receiver")
    /\ relay.rcv \in Finished
    /\ relay' = [relay EXCEPT !.pc = "murf_close", !.murf = "closing"]
    /\ RelayVarsUnchanged

\* the exit of `async with` (line 135) is over: the TTS connection is
\* closed; lines 189-192: the relay returns full_text
murf_closed ==
    /\ At("murf_close")
    /\ Return([relay EXCEPT !.murf = "closed"])
    /\ RelayVarsUnchanged

\* lines 147-156: audio_receiver gets a message from the TTS backend, with
\* audio or without, final or not.  Audio is handed to the client
\* connection, where the receiver waits for the send before it looks at
\* `final` (a send to a client that is gone raises at once, which line 163
\* catches); a message without audio goes to the test of `final` directly,
\* and one that is not final either leaves the receiver in a new receive
audio_receiver(has_audio, final) ==
    /\ relay.rcv = "running"
    /\ relay.murf \in {"open", "closing"}
    /\ IF has_audio
       THEN IF WsOpen
            THEN relay' = [relay EXCEPT !.rcv = IF final THEN "sending_final"
                                                      ELSE "sending"]
            ELSE relay' = [relay EXCEPT !.rcv = "error"]
       ELSE IF final
            THEN relay' = [relay EXCEPT !.rcv = "final"]
            ELSE relay' = relay
    /\ RelayVarsUnchanged

\* lines 153-156: the send of the audio message is over (sent: it returned,
\* the client has the audio; it raises once the client is gone); `final`
\* ends the receiver, otherwise it receives again.  The messages forwarded
\* are counted up to MaxAudio
audio_sent(sent) ==
    /\ relay.rcv \in {"sending", "sending_final"}
    /\ WsOpen => sent
    /\ IF sent
       THEN relay' = [relay EXCEPT !.audio = IF @ < MaxAudio THEN @ + 1 ELSE @,
                                   !.rcv = IF relay.rcv = "sending_final"
                                           THEN "final" ELSE "running"]
       ELSE relay' = [relay EXCEPT !.rcv = "error"]
    /\ RelayVarsUnchanged

\* lines 157-165: the receive times out after 30 seconds without a message,
\* or finds the connection closed, or fails otherwise; on a connection the
\* relay has closed it finds the connection closed
audio_receiver_stops(why) ==
    /\ relay.rcv = "running"
    /\ why \in {"timeout", "closed", "error"}
    /\ relay.murf = "closed" => why = "closed"
    /\ relay' = [relay EXCEPT !.rcv = why]
    /\ RelayVarsUnchanged

\* ------------------------------------------------------ cleanup_old_sessions

\* del chat_histories[session_id]
Deleted(store, sid) == [k \in DOMAIN store \ {sid} |-> store[k]]

ReaperVarsUnchanged ==
    UNCHANGED <<murf_key, hstate, session_id, transcriber, is_listening,
                adapters, scheduled, relay, lists, nevents, called, interims, sending,
                now, msgs>>

\* lines 205-208: time.sleep(3600) is over; now = datetime.now()
ReaperWake ==
    /\ reaper.pc = "sleep"
    /\ now >= reaper.slept + 1
    /\ reaper' = [reaper EXCEPT !.pc = "keys", !.now = now]
    /\ chat_histories' = chat_histories
    /\ ReaperVarsUnchanged

\* lines 210-213: the keys of the store are copied (visited below in any
\* order: the model's store keeps no insertion order); the thread holds no
\* lock, so the loop may have run since the clock was read
ReaperKeys ==
    /\ reaper.pc = "keys"
    /\ reaper' = [reaper EXCEPT !.pc = "loop",
                                !.todo = DOMAIN chat_histories,
                                !.cleaned_count = 0]
    /\ chat_histories' = chat_histories
    /\ ReaperVarsUnchanged

\* the test of line 217 with >= for >
ReaperCheckNotStrict(sid) ==
    /\ reaper.pc = "loop"
    /\ sid \in reaper.todo
    /\ IF /\ sid \in DOMAIN chat_histories
          /\ reaper.now - chat_histories[sid].last_accessed >= SESSION_CLEANUP_HOURS
       THEN reaper' = [reaper EXCEPT !.pc = "del", !.session_id = sid,
                                     !.todo = @ \ {sid}]
       ELSE reaper' = [reaper EXCEPT !.todo = @ \ {sid}]
    /\ chat_histories' = chat_histories
    /\ ReaperVarsUnchanged

\* lines 214-218: the next id of the copy; it is deleted below if it is
\* still stored and now - last_accessed > inactive_threshold
ReaperCheck(sid) ==
    /\ reaper.pc = "loop"
    /\ sid \in reaper.todo
    /\ IF /\ sid \in DOMAIN chat_histories
          /\ reaper.now - chat_histories[sid].last_accessed > SESSION_CLEANUP_HOURS
       THEN reaper' = [reaper EXCEPT !.pc = "del", !.session_id = sid,
                                     !.todo = @ \ {sid}]
       ELSE reaper' = [reaper EXCEPT !.todo = @ \ {sid}]
    /\ chat_histories' = chat_histories
    /\ ReaperVarsUnchanged

\* lines 219-220: del chat_histories[session_id]; a KeyError would end the
\* pass in the `except` of line 225
ReaperDelete ==
    /\ reaper.pc = "del"
    /\ IF reaper.session_id \in DOMAIN chat_histories
       THEN /\ chat_histories' = Deleted(chat_histories, reaper.session_id)
            /\ reaper' = [reaper EXCEPT !.pc = "loop", !.session_id = None,
                                        !.cleaned_count = @ + 1]
       ELSE /\ chat_histories' = chat_histories
            /\ reaper' = [reaper EXCEPT !.pc = "sleep", !.session_id = None,
                                        !.todo = {}, !.passes = @ + 1,
                                        !.slept = now]
    /\ ReaperVarsUnchanged

\* lines 222-223 and 205: the pass is over, the thread sleeps again
ReaperDone ==
    /\ reaper.pc = "loop"
    /\ reaper.todo = {}
    /\ reaper' = [reaper EXCEPT !.pc = "sleep", !.passes = @ + 1, !.slept = now]
    /\ chat_histories' = chat_histories
    /\ ReaperVarsUnchanged

\* datetime.now() moves on to a later reading
Tick(t) ==
    /\ t \in Times
    /\ t > now
    /\ now' = t
    /\ UNCHANGED <<murf_key, reaper, hstate, session_id, transcriber,
                   is_listening, adapters, scheduled, relay, chat_histories, lists,
                   nevents, called, interims, sending, msgs>>

\* the client's connection is gone: from now on a send to it raises
ClientGone ==
    /\ hstate = "running"
    /\ hstate' = "exited"
    /\ UNCHANGED <<murf_key, reaper, session_id, transcriber, is_listening,
                   adapters, scheduled, relay, chat_histories, lists, nevents,
                   called, interims, sending, now, msgs>>

\* -------------------------------------------------------------------- Next

\* the client's messages: at most m of them, the session ids taken from
\* ids, the adapter's constructor called with an api_key of keys
HandlerNext(m, ids, keys) ==
    \/ /\ Len(msgs) < m
       /\ \/ \E sid \in NoSessionIds : ConfigNoSession(sid)
          \/ \E sid \in ids, persona \in PersonaInputs, connect_ok \in BOOLEAN,
                key \in keys, close_ok \in BOOLEAN :
                Config(sid, persona, connect_ok, key, close_ok)
          \/ Audio
          \/ \E close_ok \in BOOLEAN, again_ok \in BOOLEAN :
                StopRecording(close_ok, again_ok)
          \/ OtherMessage
    \/ \E close_ok \in BOOLEAN : ConfigNoSessionReturn(close_ok)
    \/ \E close_ok \in BOOLEAN : HandlerExit(close_ok)

\* the reaper thread, for at most n passes
ReaperNext(n) ==
    \/ reaper.passes < n /\ ReaperWake
    \/ ReaperKeys
    \/ \E sid \in DOMAIN chat_histories \cup reaper.todo : ReaperCheck(sid)
    \/ ReaperDelete
    \/ ReaperDone

\* The program as it is written: one connection, the reaper thread and the
\* clock.  The adapter's constructor is called without api_key (CallKeys),
\* so every config message with a session id creates or updates the session
\* and then ends the handler.  Earlier connections have left sessions the
\* same way: an empty history and a persona.
InitAsWritten ==
    /\ murf_key \in {None, "key"}
    /\ hstate = "running"
    /\ session_id = None
    /\ transcriber = 0
    /\ is_listening = FALSE
    /\ adapters = <<>>
    /\ scheduled = <<>>
    /\ relay = NoRelay
    /\ lists = <<<<>>, <<>>>>
    /\ \E ids \in SUBSET {"abc1234567", "zzz7654321"} :
          chat_histories =
              [sid \in ids |-> [history |-> IF sid = "abc1234567" THEN 1 ELSE 2,
                                persona_prompt |-> PERSONAS["default"],
                                last_accessed |-> 0]]
    /\ nevents = 0
    /\ called = <<>>
    /\ interims = 0
    /\ sending = 0
    /\ now = 0
    /\ msgs = <<>>
    /\ reaper = Sleeping

NextAsWritten ==
    \/ HandlerNext(WrittenMsgs, SessionIds, CallKeys)
    \/ ReaperNext(MaxPasses)
    \/ \E t \in Times : Tick(t)

SpecAsWritten == InitAsWritten /\ [][NextAsWritten]_vars

\* manage_conversation_history on its own: the histories are told apart by
\* the numbers their turns carry, the first turn being a user's or a model's
NumberedHistory(n, first) ==
    [i \in 1..n |-> IF (i + first) % 2 = 1 THEN UserTurn(<<i + first>>)
                                          ELSE ModelTurn(<<i + first>>)]

Histories ==
    {NumberedHistory(n, first) : n \in 0..(MAX_HISTORY_LENGTH + MaxExcess), first \in {0, 1}}

InitHistory ==
    /\ murf_key = None
    /\ hstate = "running"
    /\ session_id = None
    /\ transcriber = 0
    /\ is_listening = FALSE
    /\ adapters = <<>>
    /\ scheduled = <<>>
    /\ relay = NoRelay
    /\ \E h \in Histories : lists = <<h>>
    /\ chat_histories = EmptyStore
    /\ nevents = 0
    /\ called = <<>>
    /\ interims = 0
    /\ sending = 0
    /\ now = 0
    /\ msgs = <<>>
    /\ reaper = Sleeping

\* history = manage_conversation_history(history), applied to the list made
\* last; the result is kept next to its argument
ManageHistory ==
    /\ Len(lists) <= MaxApplications
    /\ lists' = Append(lists, manage_conversation_history(lists[Len(lists)]))
    /\ UNCHANGED <<murf_key, hstate, session_id, transcriber, is_listening,
                   adapters, scheduled, relay, chat_histories, nevents, called,
                   interims, sending, now, msgs, reaper>>

NextHistory == ManageHistory

SpecHistory == InitHistory /\ [][NextHistory]_vars

\* stream_llm_to_murf_and_client on its own: one call, with a text sequence
\* of TextStreams and a client connection that is open when the call is
\* made; MURF_API_KEY is set or not
InitRelay ==
    /\ murf_key \in {None, "key"}
    /\ hstate = "running"
    /\ session_id = None
    /\ transcriber = 0
    /\ is_listening = FALSE
    /\ adapters = <<>>
    /\ scheduled = <<>>
    /\ \E s \in TextStreams :
          relay = [NoRelay EXCEPT !.pc = "start", !.input = s, !.stream = s]
    /\ lists = <<>>
    /\ chat_histories = EmptyStore
    /\ nevents = 0
    /\ called = <<>>
    /\ interims = 0
    /\ sending = 0
    /\ now = 0
    /\ msgs = <<>>
    /\ reaper = Sleeping

\* a call the relay awaits on the TTS connection or on the client connection
\* is over, with its result or with an exception
AwaitedCallEnds ==
    \/ \E ok \in BOOLEAN : murf_connect(ok)
    \/ \E ok \in BOOLEAN : murf_config(ok)
    \/ \E sent \in BOOLEAN : chunk_sent(sent)
    \/ \E ok \in BOOLEAN : murf_send(ok)
    \/ \E ok \in BOOLEAN : murf_end(ok)
    \/ \E sent \in BOOLEAN : llm_end_sent(sent)
    \/ murf_closed

\* the receiver's send of an audio message to the client is over
AudioSendEnds == \E sent \in BOOLEAN : audio_sent(sent)

\* the wait_for of line 150 is over: a message has come within the 30
\* seconds, or the wait raised
ReceiveEnds ==
    \/ \E has_audio \in BOOLEAN, final \in BOOLEAN : audio_receiver(has_audio, final)
    \/ \E why \in {"timeout", "closed", "error"} : audio_receiver_stops(why)

NextRelay ==
    \/ relay_start
    \/ text_next
    \/ receiver_joined
    \/ AwaitedCallEnds
    \/ AudioSendEnds
    \/ ReceiveEnds
    \/ ClientGone

\* The loop runs a coroutine that is ready (relay_start, text_next with the
\* item the sequence has produced, receiver_joined), and the wait of line
\* 150 ends within its 30 seconds one way or the other.  The code sets no
\* time limit on the connect, on a send or on the closing handshake: that
\* each of them ends is granted here, which can only help the relay return.
SpecRelay ==
    /\ InitRelay
    /\ [][NextRelay]_vars
    /\ WF_vars(relay_start)
    /\ WF_vars(text_next)
    /\ WF_vars(receiver_joined)
    /\ WF_vars(AwaitedCallEnds)
    /\ WF_vars(AudioSendEnds)
    /\ WF_vars(ReceiveEnds)

\* The class AssemblyAIStreamingTranscriber on its own: one adapter whose
\* constructor was given an api_key and has returned, held by its caller;
\* the backend delivers at most MaxEvents events to it
InitAdapter ==
    /\ murf_key = None
    /\ hstate = "running"
    /\ session_id = None
    /\ transcriber = 0
    /\ is_listening = FALSE
    /\ \E key \in GivenKeys :
          /\ TranscriberInit(key, TRUE) = "ok"
          /\ adapters = <<NewAdapter>>
    /\ scheduled = <<>>
    /\ relay = NoRelay
    /\ lists = <<>>
    /\ chat_histories = EmptyStore
    /\ nevents = 0
    /\ called = <<>>
    /\ interims = 0
    /\ sending = 0
    /\ now = 0
    /\ msgs = <<>>
    /\ reaper = Sleeping

NextAdapter ==
    \/ \E a \in 1..Len(adapters) : stream_audio(a)
    \/ /\ nevents < MaxEvents
       /\ \E a \in 1..Len(adapters), transcript \in Transcripts,
             end_of_turn \in BOOLEAN, turn_is_formatted \in BOOLEAN :
             on_turn(a, transcript, end_of_turn, turn_is_formatted)
    \/ /\ nevents < MaxEvents
       /\ \E a \in 1..Len(adapters) : on_error(a)
    \/ SendInterim
    \/ \E sent \in BOOLEAN : interim_sent(sent)
    \/ RunCallback
    \/ \E a \in 1..Len(adapters), close_ok \in BOOLEAN : close(a, close_ok)
    \/ ClientGone

SpecAdapter == InitAdapter /\ [][NextAdapter]_vars

\* ------------------------------------------------------------------ claims

IsPrefix(p, s) == Len(p) <= Len(s) /\ \A i \in 1..Len(p) : p[i] = s[i]

\* C8: the persona prompt stored for a session is the one its first config
\* message selected: while the session is stored its persona_prompt never
\* changes.
C8_PersonaImmutable ==
    [][\A sid \in DOMAIN chat_histories \cap DOMAIN chat_histories' :
          chat_histories'[sid].persona_prompt = chat_histories[sid].persona_prompt]_vars

\* the sequence has text items only: its generator does not fail
TextOnly(s) == \A i \in 1..Len(s) : s[i].t = "text"

\* C9: a call of the relay whose text sequence ended and whose client stayed
\* connected returns the concatenation of the fragments with text of the
\* sequence, in their order, whatever happened on the TTS side.
C9_RelayReturnsAllText ==
    (relay.pc = "returned" /\ TextOnly(relay.input) /\ WsOpen) =>
        relay.result = Concat(Fragments(relay.input))

\* every variable but the log of received messages, the clock and the reaper
ConnectionVars ==
    <<hstate, session_id, transcriber, is_listening, adapters, scheduled, relay,
      chat_histories, lists, nevents, called, interims, sending>>

\* C11: an audio message received while is_listening is false is dropped:
\* the adapter is fed nothing, nothing is scheduled or sent, and the store
\* and the connection are as they were.
C11_AudioDroppedWhenNotListening ==
    [][(Received("audio") /\ ~is_listening) => UNCHANGED ConnectionVars]_vars

\* audio arrived before any config message and again after stop_recording,
\* and the handler is receiving as before
C11_Witness ==
    /\ msgs = <<"audio", "stop_recording", "audio">>
    /\ hstate = "running"
    /\ ~is_listening
    /\ transcriber = 0

\* C12: when the first message received on the connection is not a config
\* message, the connection is closed.
C12_FirstMessageMustBeConfig ==
    (msgs # <<>> /\ msgs[1] # "config") => hstate # "running"

\* C13: a config message without a session_id closes the connection with
\* code 1008 and does nothing else: the store, the heap of histories, the
\* adapters, the adapter held and is_listening are as they were, nothing is
\* scheduled or sent, and the close ends the handler.
C13_MissingIdOnlyCloses ==
    [][/\ (Received("config") /\ session_id' \in NoSessionIds) =>
             /\ hstate' = "closing_1008"
             /\ UNCHANGED <<chat_histories, lists, adapters, transcriber,
                            is_listening, scheduled, relay, called, interims, sending>>
       /\ (hstate = "closing_1008" /\ hstate' # hstate) =>
             /\ hstate' = "closed_1008"
             /\ UNCHANGED <<chat_histories, lists, adapters, transcriber,
                            is_listening, scheduled, relay, called, interims, sending,
                            session_id, msgs>>]_vars

\* a first config message without session_id has closed the connection
C13_Witness ==
    /\ msgs = <<"config">>
    /\ session_id \in NoSessionIds
    /\ hstate = "closed_1008"
    /\ ~is_listening
    /\ adapters = <<>>
    /\ \A sid \in NoSessionIds : sid \notin DOMAIN chat_histories

\* C14: a config message whose session_id is shorter than the minimum length
\* creates no session and does not make the connection listen.
C14_ShortIdRejected ==
    \A sid \in ShortSessionIds :
        /\ sid \notin DOMAIN chat_histories
        /\ ~(session_id = sid /\ is_listening)

\* the session is idle for the pass: now - last_accessed > the threshold
Idle(store, sid) ==
    /\ sid \in DOMAIN store
    /\ reaper.now - store[sid].last_accessed > SESSION_CLEANUP_HOURS

\* C15: a pass of the reaper picks for deletion exactly the sessions it finds
\* idle for strictly more than SESSION_CLEANUP_HOURS, deletes what it picked
\* and nothing else, leaves every other session as it was, and ends with no
\* session idle for its `now`, so that a pass repeated at once removes none.
C15_ReapsExactlyIdle ==
    [][reaper' # reaper =>
          /\ \A sid \in reaper.todo \ reaper'.todo :
                reaper.pc = "loop" =>
                    (reaper'.pc = "del" /\ reaper'.session_id = sid)
                        <=> Idle(chat_histories, sid)
          /\ \A sid \in DOMAIN chat_histories :
                IF reaper.pc = "del" /\ sid = reaper.session_id
                THEN sid \notin DOMAIN chat_histories'
                ELSE /\ sid \in DOMAIN chat_histories'
                     /\ chat_histories'[sid] = chat_histories[sid]
          /\ DOMAIN chat_histories' \subseteq DOMAIN chat_histories
          /\ reaper'.pc # "sleep" => reaper'.passes = reaper.passes
          /\ (reaper'.pc = "sleep" /\ reaper'.passes > reaper.passes) =>
                /\ reaper.pc = "loop"
                /\ \A sid \in DOMAIN chat_histories' : ~Idle(chat_histories', sid)
      ]_vars

\* a pass at hour 25 has removed the session idle since hour 0 and kept the
\* one used at hour 24
C15_Witness ==
    /\ reaper.pc = "sleep"
    /\ reaper.passes = 1
    /\ reaper.now = SESSION_CLEANUP_HOURS + 1
    /\ reaper.cleaned_count = 1
    /\ "zzz7654321" \notin DOMAIN chat_histories
    /\ "abc1234567" \in DOMAIN chat_histories
    /\ chat_histories["abc1234567"].last_accessed = SESSION_CLEANUP_HOURS

\* a pass at hour 24 has kept a session idle since hour 0, and the pass an
\* hour later removed it
C15_WitnessStrict ==
    /\ reaper.pc = "sleep"
    /\ reaper.passes = 2
    /\ reaper.now = SESSION_CLEANUP_HOURS + 1
    /\ reaper.cleaned_count = 1
    /\ chat_histories = EmptyStore

\* C17: last_accessed of a session is the current time after each use of
\* it: after a config message for it, and after any step that changes what
\* is stored for it.
C17_TouchedOnUse ==
    [][\A sid \in DOMAIN chat_histories' :
          (\/ Received("config") /\ session_id' = sid
           \/ /\ sid \in DOMAIN chat_histories
              /\ chat_histories'[sid] # chat_histories[sid])
              => chat_histories'[sid].last_accessed = now]_vars

\* C19: once close() of the adapter has returned, no `transcript` message is
\* sent to the client, whenever the backend's thread scheduled it.
C19_NoTranscriptAfterStop ==
    [][(\E a \in 1..Len(adapters) : adapters[a].state = "closed") =>
          interims' = interims]_vars

\* C23: when the transcription backend reports an error, a message of type
\* error is handed to the loop for the client, and the handler goes on as it
\* was (still running, still listening if it was).
C23_BackendErrorReported ==
    [][\A a \in 1..Len(adapters) :
          adapters'[a].errors > adapters[a].errors =>
             /\ Len(scheduled') > Len(scheduled)
             /\ scheduled'[Len(scheduled')].kind = "error"
             /\ is_listening' = is_listening
             /\ hstate' = hstate]_vars

\* C24: a config message with a non-empty session id leaves the connection
\* listening: a new adapter is constructed, connected and held, is_listening
\* is true and the handler goes on receiving.
C24_ConfigReachesListening ==
    [][(Received("config") /\ session_id' \notin NoSessionIds) =>
          /\ hstate' = "running"
          /\ is_listening'
          /\ Len(adapters') = Len(adapters) + 1
          /\ transcriber' = Len(adapters')
          /\ adapters'[transcriber'].state = "open"]_vars

\* C25: manage_conversation_history returns a history of at most
\* MAX_HISTORY_LENGTH turns as it is, and of a longer one exactly the last
\* MAX_HISTORY_LENGTH turns in their order; applied to its own result it
\* changes nothing.
C25_SlidingWindow ==
    \A i \in 2..Len(lists) :
        LET h == lists[i - 1]
            r == lists[i]
        IN  /\ Len(h) <= MAX_HISTORY_LENGTH => r = h
            /\ Len(h) > MAX_HISTORY_LENGTH =>
                   /\ Len(r) = MAX_HISTORY_LENGTH
                   /\ \A j \in 1..MAX_HISTORY_LENGTH :
                          r[j] = h[Len(h) - MAX_HISTORY_LENGTH + j]
            /\ i >= 3 => r = h

C25_Witness ==
    /\ Len(lists) = 3
    /\ Len(lists[1]) = MAX_HISTORY_LENGTH + 2
    /\ Len(lists[3]) = MAX_HISTORY_LENGTH
    /\ lists[3][1] = lists[1][3]

\* what the TTS backend is to be sent for a text sequence: the voice
\* configuration, one text message for each fragment with text, end-of-input
Expected(s) ==
    <<VoiceConfig>>
    \o [i \in 1..Len(Fragments(s)) |-> TextMsg(Fragments(s)[i])]
    \o <<EndMsg>>

\* the text messages among the messages sent to the TTS backend
TextsSent(tts) == Cardinality({i \in 1..Len(tts) : tts[i].k = "text"})

\* C27: in a call of the relay the TTS backend is sent, in this order, the
\* voice configuration, one text message for each fragment with text
\* carrying that fragment, and end-of-input; the client is sent the
\* fragments with text as llm_chunk in their order, each before it goes to
\* the TTS backend and after the one before it went there; llm_end is sent
\* at most once, after all of that; and a call that has come to wait for its
\* receiver has sent every one of these messages exactly once.
C27_RelayOrder ==
    LET F == Fragments(relay.input)
        E == Expected(relay.input)
        k == TextsSent(relay.tts)
    IN  /\ IsPrefix(relay.tts, E)
        /\ IsPrefix(relay.chunks, F)
        /\ k <= Len(relay.chunks)
        /\ Len(relay.chunks) <= k + 1
        /\ relay.pc = "chunk_send" =>
               /\ Len(relay.chunks) = k
               /\ k < Len(F)
               /\ relay.chunk = F[k + 1]
        /\ relay.pc = "murf_send" =>
               /\ Len(relay.chunks) = k + 1
               /\ relay.chunks[k + 1] = relay.chunk
        /\ relay.llm_ends <= 1
        /\ relay.llm_ends = 1 => (relay.tts = E /\ relay.chunks = F)
        /\ relay.pc = "llm_end_send" => (relay.tts = E /\ relay.chunks = F)
        /\ relay.pc = "await_receiver" => relay.llm_ends = 1

\* a call with a fragment without text between two with text has returned
\* after sending everything
C27_Witness ==
    /\ relay.pc = "returned"
    /\ relay.input = <<TextItem(<<"a">>), TextItem(<<>>), TextItem(<<"b">>)>>
    /\ relay.tts = <<VoiceConfig, TextMsg(<<"a">>), TextMsg(<<"b">>), EndMsg>>
    /\ relay.chunks = <<<<"a">>, <<"b">>>>
    /\ relay.llm_ends = 1

\* C29: a call of the relay returns, whatever the TTS backend does (the text
\* sequences of the model all end).
C29_RelayReturns == (relay.pc = "start") ~> (relay.pc = "returned")

\* C30: no audio message is forwarded after the final-flagged one; the
\* receiver gives up waiting (its receive times out) only after end-of-input
\* was sent to the TTS backend, not while text is still being forwarded;
\* and a call that started a receiver returns only when the receiver got the
\* final-flagged message or timed out.
C30_ReceiverOutlastsText ==
    [][/\ relay.rcv = "final" =>
             (relay'.rcv = "final" /\ relay'.audio = relay.audio)
       /\ (relay'.rcv = "timeout" /\ relay.rcv # "timeout") =>
             (relay.tts # <<>> /\ relay.tts[Len(relay.tts)] = EndMsg)
       /\ (relay'.pc = "returned" /\ relay.pc # "returned" /\ relay.rcv # "none") =>
             relay'.rcv \in {"final", "timeout"}]_vars

\* C31: for every Turn event an adapter handles: with an empty transcript
\* nothing is handed to the loop; with a transcript and end_of_turn false
\* one interim `transcript` send is handed to the loop; the final callback
\* is handed to the loop if and only if the transcript is not empty and
\* end_of_turn and turn_is_formatted both hold, and it carries the
\* transcript of the event.  The event itself starts no callback and sends
\* nothing.
C31_TurnEvents ==
    [][\A a \in 1..Len(adapters), transcript \in Transcripts,
          end_of_turn \in BOOLEAN, turn_is_formatted \in BOOLEAN :
          on_turn(a, transcript, end_of_turn, turn_is_formatted) =>
             /\ transcript = <<>> => scheduled' = scheduled
             /\ (transcript # <<>> /\ ~end_of_turn) =>
                    scheduled' = Append(scheduled,
                                        [kind |-> "interim", text |-> transcript])
             /\ (scheduled' = Append(scheduled, [kind |-> "final", text |-> transcript]))
                    <=> (transcript # <<>> /\ end_of_turn /\ turn_is_formatted)
             /\ (transcript # <<>> /\ end_of_turn /\ ~turn_is_formatted) =>
                    scheduled' = scheduled
             /\ called' = called
             /\ interims' = interims
             /\ sending' = sending]_vars

C31_Witness ==
    /\ nevents = 2
    /\ Len(scheduled) = 2
    /\ scheduled[1] = [kind |-> "interim", text |-> <<"hello">>]
    /\ scheduled[2] = [kind |-> "final", text |-> <<"hello">>]

====
